---------------------------- MODULE Spec2Model ----------------------------
(***************************************************************************)
(* merge_safetensors.py: a JSON index maps tensor names to shard files;    *)
(* the script groups the names by shard, reads the requested tensors out   *)
(* of every shard, and writes them to one output file while a spinner      *)
(* thread reports progress.                                                *)
(*                                                                         *)
(* A path is a sequence of segments (strings).  A tensor stored in a shard *)
(* is an opaque blob, identified by the shard that holds it and the key it *)
(* is stored under.  The file system and the terminal are the environment: *)
(* what a shard holds, whether a read fails, what the user types and       *)
(* whether the write succeeds are chosen when the program asks, and what   *)
(* the program was told is recorded in disk / unreadable.                  *)
(***************************************************************************)
EXTENDS Naturals, Sequences, FiniteSets, TLC

\* ------------------------------------------------------------------------
\* Bounds of the model
\* ------------------------------------------------------------------------

\* Number of tensor names the index may mention.
MaxNames == 2

\* Number of distinct shard files the index may mention.
MaxShardFiles == 2

AllNames == <<"t1", "t2", "t3", "t4">>

Names == {AllNames[n] : n \in 1..MaxNames}

\* Shard file names, listed in ascending string order.
AllShardFiles == <<"a.safetensors", "b.safetensors", "c.safetensors", "e.safetensors">>

ShardFiles == {AllShardFiles[n] : n \in 1..MaxShardFiles}

\* ------------------------------------------------------------------------
\* Paths
\* ------------------------------------------------------------------------

\* The directory the process runs in, and the directory of the index file
\* (main: index_dir = dirname(abspath(args.index_file))), both absolute.
cwd == <<"w">>

index_dir == <<"d">>

\* A path as the program is given it: absolute or relative, segments not
\* yet normalised.
Path(isabs, segs) == [abs |-> isabs, segs |-> segs]

\* os.path.join(a, b) for an absolute directory a: an absolute b replaces a.
join(dir, p) == IF p.abs THEN p ELSE Path(TRUE, dir \o p.segs)

\* os.path.normpath on the segments of an absolute path: "." is dropped,
\* ".." removes the segment before it (and is dropped at the root).
RECURSIVE normsegs(_, _)
normsegs(segs, acc) ==
    IF segs = <<>> THEN acc
    ELSE LET s == Head(segs)
         IN  IF s = "." \/ s = ""
             THEN normsegs(Tail(segs), acc)
             ELSE IF s = ".."
             THEN normsegs(Tail(segs),
                           IF acc = <<>> THEN acc ELSE SubSeq(acc, 1, Len(acc) - 1))
             ELSE normsegs(Tail(segs), Append(acc, s))

\* os.path.abspath: a relative path is taken from cwd, then normalised.
\* The result is the sequence of segments of the absolute path.
abspath(p) == normsegs(IF p.abs THEN p.segs ELSE cwd \o p.segs, <<>>)

\* os.path.dirname of an absolute normalised path.
dirname(segs) == IF segs = <<>> THEN <<>> ELSE SubSeq(segs, 1, Len(segs) - 1)

\* String order of the segments that occur in shard paths: the position of
\* a segment in this list, which is in ascending code-point order.  No
\* segment here is a prefix of another, so comparing paths segment by
\* segment is comparing the path strings.
SegOrder == <<"a.safetensors", "b.safetensors", "c.safetensors", "d",
              "e.safetensors", "w", "x">>

SegRank(s) == CHOOSE n \in 1..Len(SegOrder) : SegOrder[n] = s

\* p < q as Python compares the two path strings.
RECURSIVE PathLess(_, _)
PathLess(p, q) ==
    IF q = <<>> THEN FALSE
    ELSE IF p = <<>> THEN TRUE
    ELSE IF Head(p) = Head(q) THEN PathLess(Tail(p), Tail(q))
    ELSE SegRank(Head(p)) < SegRank(Head(q))

\* sorted(S) for a set of paths.
RECURSIVE sorted(_)
sorted(S) ==
    IF S = {} THEN <<>>
    ELSE LET m == CHOOSE x \in S : \A y \in S \ {x} : PathLess(x, y)
         IN  <<m>> \o sorted(S \ {m})

\* ------------------------------------------------------------------------
\* The index
\* ------------------------------------------------------------------------

\* The spellings of shard files an index may use, relative to the index
\* file: the plain file name, and a second spelling of the first shard.
ShardSpellings ==
    {Path(FALSE, <<s>>) : s \in ShardFiles}
        \cup {Path(FALSE, <<".", "x", "..", AllShardFiles[1]>>)}

Range(seq) == {seq[n] : n \in 1..Len(seq)}

\* The items of a weight_map: a sequence of <<name, shard spelling>>, no
\* name twice (json.load keeps one entry per name).  The documents of the
\* model list their names in the order of AllNames; the order of the items
\* decides only the order of the names within a list of the plan.
RECURSIVE ItemsFrom(_)
ItemsFrom(n) ==
    IF n > MaxNames THEN {<<>>}
    ELSE ItemsFrom(n + 1)
           \cup {<<<<AllNames[n], r>>>> \o rest : r \in ShardSpellings, rest \in ItemsFrom(n + 1)}

WeightMaps == ItemsFrom(1)

keys(weight_map) == {weight_map[n][1] : n \in 1..Len(weight_map)}

\* What the index file may be: absent, not parseable, parseable without
\* the weight_map field, or a document with a weight_map.
IndexFiles ==
    {[kind |-> k, weight_map |-> <<>>] : k \in {"absent", "invalid", "no_weight_map"}}
        \cup {[kind |-> "ok", weight_map |-> wm] : wm \in WeightMaps}

EmptyMap == [x \in {} |-> x]

\* group_keys_by_shard: every name is appended to the list of the absolute
\* path of its shard; a path seen for the first time gets an empty list.
RECURSIVE GroupFrom(_, _, _)
GroupFrom(items, dir, shards) ==
    IF items = <<>> THEN shards
    ELSE LET key == items[1][1]
             shard_file_absolute == abspath(join(dir, items[1][2]))
             have == IF shard_file_absolute \in DOMAIN shards
                     THEN shards
                     ELSE shards @@ (shard_file_absolute :> <<>>)
         IN  GroupFrom(Tail(items), dir,
                       [have EXCEPT ![shard_file_absolute] = Append(@, key)])

\* A variant that assigns a new list for every name instead of appending.
RECURSIVE GroupFromAssigning(_, _, _)
GroupFromAssigning(items, dir, shards) ==
    IF items = <<>> THEN shards
    ELSE LET key == items[1][1]
             shard_file_absolute == abspath(join(dir, items[1][2]))
         IN  GroupFromAssigning(Tail(items), dir,
                 [p \in DOMAIN shards \cup {shard_file_absolute} |->
                     IF p = shard_file_absolute THEN <<key>> ELSE shards[p]])

group_keys_assigning(weight_map, dir) == GroupFromAssigning(weight_map, dir, EmptyMap)

group_keys_by_shard(weight_map, dir) == GroupFrom(weight_map, dir, EmptyMap)

\* The blob a shard holds under a key.
TensorAt(shard_file, key) == <<shard_file, key>>


\* ------------------------------------------------------------------------
\* Output names
\* ------------------------------------------------------------------------

\* A file name as the user gives it: the directory part, and the file name
\* split into a stem without dots and the suffix after it.
OutputName(isabs, dir, stem, ext) == [abs |-> isabs, dir |-> dir, stem |-> stem, ext |-> ext]

\* The names given with -o or typed at the prompt.
OutputNames ==
    { OutputName(TRUE, <<"d">>, "a", ".safetensors"),
      OutputName(FALSE, <<"..", "d">>, "a", ""),
      OutputName(TRUE, <<"d">>, "b", ".SAFETENSORS"),
      OutputName(FALSE, <<"o">>, "m", ".bin") }

DefaultOutputName == OutputName(FALSE, <<>>, "model-merged", ".safetensors")

\* args.output: absent, or a string (possibly empty).
NoArg == [given |-> FALSE, empty |-> TRUE, name |-> DefaultOutputName]

EmptyArg == [given |-> TRUE, empty |-> TRUE, name |-> DefaultOutputName]

Arg(name) == [given |-> TRUE, empty |-> FALSE, name |-> name]

OutputArgs == {NoArg, EmptyArg} \cup {Arg(name) : name \in OutputNames}

\* What input() can do: return a line (a name or nothing, with or without
\* blanks around it), or raise EOFError or KeyboardInterrupt.
Typed(text, padded) == [event |-> "line", blank |-> FALSE, name |-> text, padded |-> padded]

BlankLine(padded) == [event |-> "line", blank |-> TRUE, name |-> DefaultOutputName, padded |-> padded]

NoLine(exception) == [event |-> exception, blank |-> TRUE, name |-> DefaultOutputName, padded |-> FALSE]

PromptEvents ==
    {NoLine("EOFError"), NoLine("KeyboardInterrupt")}
        \cup {BlankLine(padded) : padded \in BOOLEAN}
        \cup {Typed(name, padded) : name \in OutputNames, padded \in BOOLEAN}

\* str.strip(): the blanks around the line are removed.
strip(line) == [line EXCEPT !.padded = FALSE]

\* str.lower() on the suffixes of the model.
lower(ext) == IF ext = ".SAFETENSORS" THEN ".safetensors" ELSE ext

\* get_output_filename, lines 169-172: the suffix is appended unless the
\* lower-cased name ends with it.
ensure_extension(name) ==
    IF lower(name.ext) = ".safetensors"
    THEN name
    ELSE [name EXCEPT !.stem = name.stem \o name.ext, !.ext = ".safetensors"]

\* The name as a path: the directory part, then the file name.
AsPath(name) == Path(name.abs, name.dir \o <<name.stem \o name.ext>>)

\* The directories that exist when the output is resolved: the root, the
\* working directory, and the directory of the index file.
ExistingDirs == {<<>>, cwd, index_dir}

\* ------------------------------------------------------------------------
\* State
\* ------------------------------------------------------------------------

VARIABLES
    pc,                   \* where the main thread is
    index_file,           \* the index file on disk
    weight_map,           \* index_data["weight_map"], as its items
    shards_to_load,       \* absolute shard path -> list of names
    sorted_shard_files,   \* load_tensors: the shard paths in load order
    i,                    \* load_tensors: position in sorted_shard_files
    k,                    \* load_tensors: position in keys_in_shard
    handles,              \* the shard handles that are open
    shard_keys_available, \* f.keys() of the open shard
    merged_tensors,       \* name -> blob
    disk,                 \* what each opened shard turned out to be
    unreadable,           \* the <<shard, key>> whose get_tensor failed
    opened,               \* the shard paths passed to safe_open, in order
    log,                  \* the warnings and errors logged
    reached,              \* the steps of main that were reached
    output_filename_abs,  \* main: the resolved output path
    output_files,         \* the files written by save_file
    stop_spinner_event,   \* save_merged_file: the threading.Event
    spinner_pc,           \* where the spinner thread is
    raised,               \* the exception that left main()
    exit_code             \* the exit status of the process

vars == <<pc, index_file, weight_map, shards_to_load, sorted_shard_files, i, k,
          handles, shard_keys_available, merged_tensors, disk, unreadable, opened,
          log, reached, output_filename_abs, output_files, stop_spinner_event,
          spinner_pc, raised, exit_code>>

load_vars == <<sorted_shard_files, i, k, handles, shard_keys_available,
               merged_tensors, disk, unreadable, opened>>

save_vars == <<output_files, stop_spinner_event, spinner_pc>>

NoException == [type |-> "none"]

SystemExit(code) == [type |-> "SystemExit", code |-> code]

KeyboardInterrupt == [type |-> "KeyboardInterrupt"]

NoPath == <<>>

\* The process: still running, or ended with an exit status.
Running == [exited |-> FALSE]

Exited(code) == [exited |-> TRUE, code |-> code]

Init ==
    /\ pc = "resolve_index"
    /\ index_file \in IndexFiles
    /\ weight_map = <<>>
    /\ shards_to_load = EmptyMap
    /\ sorted_shard_files = <<>>
    /\ i = 1
    /\ k = 1
    /\ handles = {}
    /\ shard_keys_available = {}
    /\ merged_tensors = EmptyMap
    /\ disk = EmptyMap
    /\ unreadable = {}
    /\ opened = <<>>
    /\ log = {}
    /\ reached = {}
    /\ output_filename_abs = NoPath
    /\ output_files = {}
    /\ stop_spinner_event = FALSE
    /\ spinner_pc = "idle"
    /\ raised = NoException
    /\ exit_code = Running

\* An exception leaves main(): control is at the handlers of the module's
\* try statement.
Raise(exc) ==
    /\ raised' = exc
    /\ pc' = "guard"


Warning(what, key, shard_file) == [level |-> "warning", what |-> what, key |-> key, shard |-> shard_file]

Error(what, where) == [level |-> "error", what |-> what, key |-> "", shard |-> where]

\* ------------------------------------------------------------------------
\* main, lines 273-294: the index, the plan, the load
\* ------------------------------------------------------------------------

\* main, lines 274-282: the index path must exist.
ResolveIndexPath ==
    /\ pc = "resolve_index"
    /\ IF index_file.kind = "absent"
       THEN /\ log' = log \cup {Error("index_missing", NoPath)}
            /\ Raise(SystemExit(1))
       ELSE /\ pc' = "load_index"
            /\ UNCHANGED <<log, raised>>
    /\ UNCHANGED <<index_file, weight_map, shards_to_load, load_vars, reached,
                   output_filename_abs, save_vars, exit_code>>

\* load_index: a file that cannot be parsed, or has no weight_map, ends
\* the run with sys.exit(1).
LoadIndex ==
    /\ pc = "load_index"
    /\ IF index_file.kind = "ok"
       THEN /\ weight_map' = index_file.weight_map
            /\ pc' = "group_keys"
            /\ UNCHANGED <<log, raised>>
       ELSE /\ log' = log \cup {Error(index_file.kind, NoPath)}
            /\ Raise(SystemExit(1))
            /\ UNCHANGED weight_map
    /\ UNCHANGED <<index_file, shards_to_load, load_vars, reached,
                   output_filename_abs, save_vars, exit_code>>

\* main, line 286.
GroupKeysByShard ==
    /\ pc = "group_keys"
    /\ shards_to_load' = group_keys_by_shard(weight_map, index_dir)
    /\ pc' = "load_tensors"
    /\ UNCHANGED <<index_file, weight_map, load_vars, log, reached,
                   output_filename_abs, save_vars, raised, exit_code>>

\* load_tensors, lines 108-113.
LoadTensorsEnter ==
    /\ pc = "load_tensors"
    /\ merged_tensors' = EmptyMap
    /\ sorted_shard_files' = sorted(DOMAIN shards_to_load)
    /\ i' = 1
    /\ pc' = "shard_loop"
    /\ UNCHANGED <<index_file, weight_map, shards_to_load, k, handles,
                   shard_keys_available, disk, unreadable, opened, log, reached,
                   output_filename_abs, save_vars, raised, exit_code>>

\* What safe_open and f.keys() can find at a path: no file, a file that is
\* no container, or a container with some set of keys; or the user
\* interrupts the read.  The key sets are those that hold any part of the
\* requested names, with or without the names that are not requested.
ShardFinds(requested) ==
    {[status |-> st, keys |-> {}] : st \in {"missing", "unreadable", "interrupted"}}
        \cup {[status |-> "ok", keys |-> ks \cup others] :
                  ks \in SUBSET requested, others \in {{}, Names \ requested}}

\* A variant that logs the failure and goes on with the next shard.
OpenFailedSkips(shard_file, found) ==
    /\ log' = log \cup {Error(found.status, shard_file)}
    /\ i' = i + 1
    /\ UNCHANGED <<pc, raised, k, handles, shard_keys_available>>

\* load_tensors, lines 135-140: the shard cannot be opened.
OpenFailed(shard_file, found) ==
    /\ log' = log \cup {Error(found.status, shard_file)}
    /\ Raise(SystemExit(1))
    /\ UNCHANGED <<i, k, handles, shard_keys_available>>

\* load_tensors, lines 115-122 and 135-140: the next shard is opened and
\* its keys are read once.
OpenShard ==
    /\ pc = "shard_loop"
    /\ i <= Len(sorted_shard_files)
    /\ LET shard_file == sorted_shard_files[i]
       IN  \E found \in ShardFinds(Range(shards_to_load[shard_file])) :
             /\ opened' = Append(opened, shard_file)
             /\ disk' = disk @@ (shard_file :> found)
             /\ CASE found.status = "ok" ->
                       /\ handles' = handles \cup {shard_file}
                       /\ shard_keys_available' = found.keys
                       /\ k' = 1
                       /\ pc' = "key_loop"
                       /\ UNCHANGED <<i, log, raised>>
                  [] found.status = "interrupted" ->
                       /\ Raise(KeyboardInterrupt)
                       /\ UNCHANGED <<i, k, handles, shard_keys_available, log>>
                  [] OTHER -> OpenFailed(shard_file, found)
    /\ UNCHANGED <<index_file, weight_map, shards_to_load, sorted_shard_files,
                   merged_tensors, unreadable, reached, output_filename_abs,
                   save_vars, exit_code>>

\* A variant that gives up the rest of the shard after a failed read.
ReadFailedLeavesShard(shard_file, key) ==
    /\ log' = log \cup {Warning("read_failed", key, shard_file)}
    /\ unreadable' = unreadable \cup {<<shard_file, key>>}
    /\ k' = Len(shards_to_load[shard_file]) + 1
    /\ UNCHANGED <<merged_tensors, handles, pc, raised>>

\* load_tensors, lines 130-133: what happens to a key whose read failed.
ReadFailed(shard_file, key) ==
    /\ log' = log \cup {Warning("read_failed", key, shard_file)}
    /\ unreadable' = unreadable \cup {<<shard_file, key>>}
    /\ k' = k + 1
    /\ UNCHANGED <<merged_tensors, handles, pc, raised>>

\* A variant that starts a new mapping for every tensor.
StoreAlone(shard_file, key) ==
    /\ merged_tensors' = (key :> TensorAt(shard_file, key))
    /\ k' = k + 1
    /\ UNCHANGED <<log, unreadable, handles, pc, raised>>

\* load_tensors, line 131: the tensor is stored under its key; a key that
\* is already there is overwritten.
Store(shard_file, key) ==
    /\ merged_tensors' =
           [n \in DOMAIN merged_tensors \cup {key} |->
               IF n = key THEN TensorAt(shard_file, key) ELSE merged_tensors[n]]
    /\ k' = k + 1
    /\ UNCHANGED <<log, unreadable, handles, pc, raised>>

\* load_tensors, lines 123-133: one requested key of the open shard.
ReadKey ==
    /\ pc = "key_loop"
    /\ LET shard_file == sorted_shard_files[i]
           keys_in_shard == shards_to_load[shard_file]
       IN  /\ k <= Len(keys_in_shard)
           /\ LET key == keys_in_shard[k]
              IN  IF key \notin shard_keys_available
                  THEN /\ log' = log \cup {Warning("missing_key", key, shard_file)}
                       /\ k' = k + 1
                       /\ UNCHANGED <<merged_tensors, unreadable, handles, pc, raised>>
                  ELSE \E read \in {"ok", "failed", "interrupted"} :
                         CASE read = "ok" -> Store(shard_file, key)
                           [] read = "failed" -> ReadFailed(shard_file, key)
                           [] OTHER ->
                                \* KeyboardInterrupt leaves the with block
                                /\ handles' = handles \ {shard_file}
                                /\ Raise(KeyboardInterrupt)
                                /\ UNCHANGED <<merged_tensors, unreadable, log, k>>
    /\ UNCHANGED <<index_file, weight_map, shards_to_load, sorted_shard_files, i,
                   shard_keys_available, disk, opened, reached, output_filename_abs,
                   save_vars, exit_code>>

\* A variant that leaves the handle open.
CloseShardLeaks ==
    /\ pc = "key_loop"
    /\ k > Len(shards_to_load[sorted_shard_files[i]])
    /\ i' = i + 1
    /\ pc' = "shard_loop"
    /\ UNCHANGED <<index_file, weight_map, shards_to_load, sorted_shard_files, k,
                   handles, shard_keys_available, merged_tensors, disk, unreadable,
                   opened, log, reached, output_filename_abs, save_vars, raised,
                   exit_code>>

\* load_tensors, line 121: the with block ends, the handle is closed, and
\* the loop goes to the next shard.
CloseShard ==
    /\ pc = "key_loop"
    /\ k > Len(shards_to_load[sorted_shard_files[i]])
    /\ handles' = handles \ {sorted_shard_files[i]}
    /\ i' = i + 1
    /\ pc' = "shard_loop"
    /\ UNCHANGED <<index_file, weight_map, shards_to_load, sorted_shard_files, k,
                   shard_keys_available, merged_tensors, disk, unreadable, opened,
                   log, reached, output_filename_abs, save_vars, raised, exit_code>>

\* load_tensors, lines 142-144.
LoadTensorsReturn ==
    /\ pc = "shard_loop"
    /\ i > Len(sorted_shard_files)
    /\ pc' = "check_merged"
    /\ reached' = reached \cup {"loaded"}
    /\ UNCHANGED <<index_file, weight_map, shards_to_load, load_vars, log,
                   output_filename_abs, save_vars, raised, exit_code>>

\* main, lines 291-294.
CheckMerged ==
    /\ pc = "check_merged"
    /\ IF DOMAIN merged_tensors = {}
       THEN /\ log' = log \cup {Error("no_tensors", NoPath)}
            /\ Raise(SystemExit(1))
       ELSE /\ pc' = "get_output"
            /\ UNCHANGED <<log, raised>>
    /\ UNCHANGED <<index_file, weight_map, shards_to_load, load_vars, reached,
                   output_filename_abs, save_vars, exit_code>>


\* ------------------------------------------------------------------------
\* main, lines 296-310: the output path
\* ------------------------------------------------------------------------

\* get_output_filename, lines 149-166: the name before the suffix is
\* checked.  The result says whether a name was found or the prompt was
\* interrupted.
output_name(output_arg, prompt) ==
    IF output_arg.given /\ ~output_arg.empty
    THEN [interrupted |-> FALSE, name |-> output_arg.name]
    ELSE IF prompt.event = "KeyboardInterrupt"
    THEN [interrupted |-> TRUE, name |-> DefaultOutputName]
    ELSE IF prompt.event = "EOFError"
    THEN [interrupted |-> FALSE, name |-> DefaultOutputName]
    ELSE LET user_input == strip(prompt)
         IN  [interrupted |-> FALSE,
              name |-> IF user_input.blank THEN DefaultOutputName ELSE user_input.name]

\* main, line 297, and get_output_filename: the name comes from -o or from
\* the prompt; an interrupt at the prompt ends in sys.exit(130).
GetOutputFilename ==
    /\ pc = "get_output"
    /\ reached' = reached \cup {"get_output_filename"}
    /\ \E output_arg \in OutputArgs, prompt \in PromptEvents :
         LET got == output_name(output_arg, prompt)
         IN  IF got.interrupted
             THEN /\ log' = log \cup {[level |-> "warning", what |-> "prompt_interrupted",
                                       key |-> "", shard |-> NoPath]}
                  /\ Raise(SystemExit(130))
                  /\ UNCHANGED output_filename_abs
             ELSE /\ output_filename_abs' = abspath(AsPath(ensure_extension(got.name)))
                  /\ pc' = "ensure_dir"
                  /\ UNCHANGED <<log, raised>>
    /\ UNCHANGED <<index_file, weight_map, shards_to_load, load_vars, save_vars,
                   exit_code>>

\* main, lines 298-306: the directory of the output is created when it is
\* not there; a directory that cannot be created ends the run.
EnsureOutputDir ==
    /\ pc = "ensure_dir"
    /\ reached' = reached \cup {"makedirs"}
    /\ \E created \in BOOLEAN :
         IF dirname(output_filename_abs) \in ExistingDirs \/ created
         THEN /\ pc' = "collision_check"
              /\ UNCHANGED <<log, raised>>
         ELSE /\ log' = log \cup {Error("output_dir", output_filename_abs)}
              /\ Raise(SystemExit(1))
    /\ UNCHANGED <<index_file, weight_map, shards_to_load, load_vars,
                   output_filename_abs, save_vars, exit_code>>

\* main, lines 309-310: the test that the output is one of the shards.
collides(path, shards) == path \in DOMAIN shards

\* A variant that refuses to overwrite a shard.
CollisionCheckRefuses ==
    /\ pc = "collision_check"
    /\ IF collides(output_filename_abs, shards_to_load)
       THEN /\ log' = log \cup {Warning("collision", "", output_filename_abs)}
            /\ Raise(SystemExit(1))
       ELSE /\ pc' = "save_start"
            /\ UNCHANGED <<log, raised>>
    /\ UNCHANGED <<index_file, weight_map, shards_to_load, load_vars, reached,
                   output_filename_abs, save_vars, exit_code>>

\* main, lines 308-310: a warning, and the run goes on.
CollisionCheck ==
    /\ pc = "collision_check"
    /\ log' = IF collides(output_filename_abs, shards_to_load)
              THEN log \cup {Warning("collision", "", output_filename_abs)}
              ELSE log
    /\ pc' = "save_start"
    /\ UNCHANGED <<index_file, weight_map, shards_to_load, load_vars, reached,
                   output_filename_abs, save_vars, raised, exit_code>>

\* ------------------------------------------------------------------------
\* save_merged_file and the spinner thread
\* ------------------------------------------------------------------------

\* save_merged_file, lines 181-185: the event is created unset and the
\* spinner thread is started.
SaveStart ==
    /\ pc = "save_start"
    /\ stop_spinner_event' = FALSE
    /\ spinner_pc' = "loop"
    /\ pc' = "save_file"
    /\ UNCHANGED <<index_file, weight_map, shards_to_load, load_vars, log, reached,
                   output_filename_abs, output_files, raised, exit_code>>

\* save_merged_file, line 189: the one call of save_file.  It returns, or
\* raises an exception, or the user interrupts it; an interrupt is no
\* Exception and leaves save_merged_file at once.
SaveFile ==
    /\ pc = "save_file"
    /\ reached' = reached \cup {"save_file"}
    /\ \E outcome \in {"ok", "failed", "interrupted"} :
         CASE outcome = "ok" ->
                /\ output_files' = output_files \cup
                       {[path |-> output_filename_abs, tensors |-> merged_tensors]}
                /\ pc' = "save_set"
                /\ UNCHANGED raised
           [] outcome = "failed" ->
                /\ pc' = "save_except"
                /\ UNCHANGED <<output_files, raised>>
           [] OTHER ->
                /\ Raise(KeyboardInterrupt)
                /\ UNCHANGED output_files
    /\ UNCHANGED <<index_file, weight_map, shards_to_load, load_vars, log,
                   output_filename_abs, stop_spinner_event, spinner_pc, exit_code>>

\* save_merged_file, line 191.
SaveSetStop ==
    /\ pc = "save_set"
    /\ stop_spinner_event' = TRUE
    /\ pc' = "save_join"
    /\ UNCHANGED <<index_file, weight_map, shards_to_load, load_vars, log, reached,
                   output_filename_abs, output_files, spinner_pc, raised, exit_code>>

\* A variant whose join has no timeout: it returns when the thread ended.
SaveJoinUnbounded ==
    /\ pc = "save_join"
    /\ spinner_pc = "done"
    /\ pc' = "guard"
    /\ UNCHANGED <<index_file, weight_map, shards_to_load, load_vars, log, reached,
                   output_filename_abs, save_vars, raised, exit_code>>

\* save_merged_file, lines 192 and 202-205, and main, lines 315-317:
\* join(timeout=2.0) returns when the thread has ended or the time has
\* passed, and the time always passes; then save_merged_file and main
\* return.
SaveJoin ==
    /\ pc = "save_join"
    /\ pc' = "guard"
    /\ UNCHANGED <<index_file, weight_map, shards_to_load, load_vars, log, reached,
                   output_filename_abs, save_vars, raised, exit_code>>

\* save_merged_file, lines 193-196: the handler of a failed write sets the
\* event when it is not set.
SaveExcept ==
    /\ pc = "save_except"
    /\ IF ~stop_spinner_event
       THEN /\ stop_spinner_event' = TRUE
            /\ pc' = "save_except_join"
       ELSE /\ pc' = "save_error"
            /\ UNCHANGED stop_spinner_event
    /\ UNCHANGED <<index_file, weight_map, shards_to_load, load_vars, log, reached,
                   output_filename_abs, output_files, spinner_pc, raised, exit_code>>

\* save_merged_file, line 197: join(timeout=1.0), bounded like the other.
SaveExceptJoin ==
    /\ pc = "save_except_join"
    /\ pc' = "save_error"
    /\ UNCHANGED <<index_file, weight_map, shards_to_load, load_vars, log, reached,
                   output_filename_abs, save_vars, raised, exit_code>>

\* save_merged_file, lines 198-199: the error is logged and the run ends.
SaveError ==
    /\ pc = "save_error"
    /\ log' = log \cup {Error("save_failed", output_filename_abs)}
    /\ Raise(SystemExit(1))
    /\ UNCHANGED <<index_file, weight_map, shards_to_load, load_vars, reached,
                   output_filename_abs, save_vars, exit_code>>

\* The spinner is a daemon thread: it runs while the process does.
SpinnerAlive == spinner_pc \in {"loop", "sleep", "clear"} /\ ~exit_code.exited

\* spinner_running, lines 51-57: the event is tested; when it is not set a
\* frame is written, and a failed write leaves the loop.
SpinnerTick ==
    /\ SpinnerAlive
    /\ spinner_pc = "loop"
    /\ \E wrote \in BOOLEAN :
         spinner_pc' = IF stop_spinner_event \/ ~wrote THEN "clear" ELSE "sleep"
    /\ UNCHANGED <<pc, index_file, weight_map, shards_to_load, load_vars, log, reached,
                   output_filename_abs, output_files, stop_spinner_event, raised,
                   exit_code>>

\* spinner_running, line 58.
SpinnerSleep ==
    /\ SpinnerAlive
    /\ spinner_pc = "sleep"
    /\ spinner_pc' = "loop"
    /\ UNCHANGED <<pc, index_file, weight_map, shards_to_load, load_vars, log, reached,
                   output_filename_abs, output_files, stop_spinner_event, raised,
                   exit_code>>

\* spinner_running, lines 59-64: the last line is written (or a newline
\* printed) and the thread ends.
SpinnerClear ==
    /\ SpinnerAlive
    /\ spinner_pc = "clear"
    /\ spinner_pc' = "done"
    /\ UNCHANGED <<pc, index_file, weight_map, shards_to_load, load_vars, log, reached,
                   output_filename_abs, output_files, stop_spinner_event, raised,
                   exit_code>>

\* ------------------------------------------------------------------------
\* The module's try statement, lines 320-340
\* ------------------------------------------------------------------------

\* The exit status after the handlers: SystemExit is caught and passed
\* over, so the script runs to its end; KeyboardInterrupt ends in
\* sys.exit(130); main() returning ends the script.
exit_status(exc) ==
    IF exc.type = "KeyboardInterrupt" THEN 130
    ELSE IF exc.type = "Exception" THEN 1
    ELSE 0

ModuleMain ==
    /\ pc = "guard"
    /\ exit_code' = Exited(exit_status(raised))
    /\ pc' = "exited"
    /\ UNCHANGED <<index_file, weight_map, shards_to_load, load_vars, log, reached,
                   output_filename_abs, save_vars, raised>>

MainThread ==
    \/ ResolveIndexPath
    \/ LoadIndex
    \/ GroupKeysByShard
    \/ LoadTensorsEnter
    \/ OpenShard
    \/ ReadKey
    \/ CloseShard
    \/ LoadTensorsReturn
    \/ CheckMerged
    \/ GetOutputFilename
    \/ EnsureOutputDir
    \/ CollisionCheck
    \/ SaveStart
    \/ SaveFile
    \/ SaveSetStop
    \/ SaveJoin
    \/ SaveExcept
    \/ SaveExceptJoin
    \/ SaveError
    \/ ModuleMain

SpinnerThread ==
    \/ SpinnerTick
    \/ SpinnerSleep
    \/ SpinnerClear

Next == MainThread \/ SpinnerThread

Spec == Init /\ [][Next]_vars


\* ------------------------------------------------------------------------
\* save_merged_file on its own
\* ------------------------------------------------------------------------

\* The blob the index promises for every name: the one stored under that
\* name in the shard the weight_map gives for it.
Promised(wm) ==
    [n \in keys(wm) |->
        LET item == wm[CHOOSE idx \in 1..Len(wm) : wm[idx][1] = n]
        IN  TensorAt(abspath(join(index_dir, item[2])), n)]

\* main at the call of save_merged_file (line 313) after a load in which
\* every shard held exactly the names asked of it and every read succeeded.
InitSave ==
    \E wm \in WeightMaps \ {<<>>}, name \in OutputNames \cup {DefaultOutputName} :
      LET plan == group_keys_by_shard(wm, index_dir)
          order == sorted(DOMAIN plan)
          target == abspath(AsPath(ensure_extension(name)))
      IN  /\ pc = "save_start"
          /\ index_file = [kind |-> "ok", weight_map |-> wm]
          /\ weight_map = wm
          /\ shards_to_load = plan
          /\ sorted_shard_files = order
          /\ i = Len(order) + 1
          /\ k = Len(plan[order[Len(order)]]) + 1
          /\ handles = {}
          /\ shard_keys_available = Range(plan[order[Len(order)]])
          /\ merged_tensors = Promised(wm)
          /\ disk = [p \in DOMAIN plan |-> [status |-> "ok", keys |-> Range(plan[p])]]
          /\ unreadable = {}
          /\ opened = order
          /\ log = IF collides(target, plan)
                   THEN {Warning("collision", "", target)}
                   ELSE {}
          /\ reached = {"loaded", "get_output_filename", "makedirs"}
          /\ output_filename_abs = target
          /\ output_files = {}
          /\ stop_spinner_event = FALSE
          /\ spinner_pc = "idle"
          /\ raised = NoException
          /\ exit_code = Running

SaveThread ==
    \/ SaveStart
    \/ SaveFile
    \/ SaveSetStop
    \/ SaveJoin
    \/ SaveExcept
    \/ SaveExceptJoin
    \/ SaveError
    \/ ModuleMain

NextSave == SaveThread \/ SpinnerThread

\* The main thread keeps running while it has a step to take; nothing is
\* assumed of the spinner thread.
SpecSave == InitSave /\ [][NextSave]_vars /\ WF_vars(SaveThread)


\* ------------------------------------------------------------------------
\* Properties
\* ------------------------------------------------------------------------

\* The shard file a spelling of the index names: every spelling of the
\* model names a file in the directory of the index.
ShardPathOf(spelling) == index_dir \o <<spelling.segs[Len(spelling.segs)]>>

\* The shard the weight_map gives for a name.
ShardOfName(n) ==
    ShardPathOf(weight_map[CHOOSE idx \in 1..Len(weight_map) : weight_map[idx][1] = n][2])

Planned == pc \notin {"resolve_index", "load_index", "group_keys"} /\ index_file.kind = "ok"

Loaded == "loaded" \in reached

Present(n) == n \in disk[ShardOfName(n)].keys

Readable(n) == <<ShardOfName(n), n>> \notin unreadable

OutputSteps == {"get_output_filename", "makedirs", "save_file"}

Logged(level) == {e \in log : e.level = level}

\* The lists of the plan that hold a name, and the places it has in one.
ListsOf(n) == {p \in DOMAIN shards_to_load : n \in Range(shards_to_load[p])}

PlacesIn(p, n) == {j \in 1..Len(shards_to_load[p]) : shards_to_load[p][j] = n}

\* The <<name, shard>> for which a warning of one kind was logged.
Warned(what) == {<<e.key, e.shard>> : e \in {x \in log : x.what = what}}

\* C1: the exit status is 0 when the merge succeeds, not 0 after every
\* fatal error, and 130 after an interruption by the user, the prompt's
\* included.
C1_ExitStatus ==
    pc = "exited" =>
        /\ (raised = NoException) => exit_code.code = 0
        /\ (Logged("error") # {}) => exit_code.code # 0
        /\ (raised = KeyboardInterrupt \/ raised = SystemExit(130)) => exit_code.code = 130

\* C2: when every shard opens and holds every name asked of it and every
\* read succeeds, the merged set is the mapping the shards were split from,
\* and the one file written holds exactly that mapping.
C2_RoundTrip ==
    (Loaded /\ \A n \in keys(weight_map) : Present(n) /\ Readable(n)) =>
        /\ merged_tensors = [n \in keys(weight_map) |-> TensorAt(ShardOfName(n), n)]
        /\ \A file \in output_files :
             file.tensors = [n \in keys(weight_map) |-> TensorAt(ShardOfName(n), n)]
        /\ Cardinality(output_files) <= 1

C2_Witness ==
    /\ pc = "exited"
    /\ Loaded
    /\ Len(weight_map) = MaxNames
    /\ Len(sorted_shard_files) = 2
    /\ \A n \in keys(weight_map) : Present(n) /\ Readable(n)
    /\ output_files # {}

\* C3: a name that is missing from its shard, or whose read fails, gets a
\* warning and stays out of the merged set; the load goes on, every shard
\* is opened, and the merged set is exactly the names present and readable.
\* Before the load has returned only an index error or a shard that cannot
\* be opened ends the run.
C3_KeyFailuresTolerated ==
    /\ Loaded =>
         /\ opened = sorted_shard_files
         /\ DOMAIN merged_tensors = {n \in keys(weight_map) : Present(n) /\ Readable(n)}
         /\ Warned("missing_key") =
                {<<n, ShardOfName(n)>> : n \in {m \in keys(weight_map) : ~Present(m)}}
         /\ Warned("read_failed") =
                {<<n, ShardOfName(n)>> : n \in {m \in keys(weight_map) : Present(m) /\ ~Readable(m)}}
    /\ (~Loaded /\ raised.type = "SystemExit") =>
         \/ index_file.kind # "ok"
         \/ \E p \in DOMAIN disk : disk[p].status \in {"missing", "unreadable"}

C3_Witness ==
    /\ Loaded
    /\ \E a, b \in 1..Len(weight_map) :
         /\ a < b
         /\ weight_map[a][1] \notin DOMAIN merged_tensors
         /\ weight_map[b][1] \in DOMAIN merged_tensors
    /\ \E n \in keys(weight_map) : n \notin DOMAIN merged_tensors /\ Present(n)

\* C4: an empty merged set after the load ends the run with the
\* empty-result error and a non-zero exit status; no output name is
\* resolved, no directory created, nothing written.
C4_EmptyResultFatal ==
    (pc = "exited" /\ Loaded /\ DOMAIN merged_tensors = {}) =>
        /\ Error("no_tensors", NoPath) \in log
        /\ exit_code.code # 0
        /\ reached \cap OutputSteps = {}
        /\ output_files = {}

\* C5: the spinner is started before save_file is called, the event is not
\* set before save_file has returned, and however save_file ends the event
\* is set when control has left save_merged_file.
C5_ReporterStopped ==
    /\ pc = "save_file" => spinner_pc # "idle"
    /\ stop_spinner_event => ("save_file" \in reached /\ pc # "save_file")
    /\ ("save_file" \in reached /\ pc \in {"guard", "exited"}) => stop_spinner_event
    /\ Error("save_failed", output_filename_abs) \in log => stop_spinner_event

\* C6: the lists of the plan partition the names of the weight_map, each
\* name listed once, under the absolute path of the shard file the
\* weight_map gives for it, whatever the spelling.
C6_PlanPartitions ==
    Planned =>
        /\ UNION {Range(shards_to_load[p]) : p \in DOMAIN shards_to_load} = keys(weight_map)
        /\ \A n \in keys(weight_map) :
             /\ ListsOf(n) = {ShardOfName(n)}
             /\ Cardinality(PlacesIn(ShardOfName(n), n)) = 1
        /\ DOMAIN shards_to_load = {ShardOfName(n) : n \in keys(weight_map)}

C6_Witness ==
    /\ pc = "load_tensors"
    /\ Len(weight_map) = 2
    /\ weight_map[1][2] # weight_map[2][2]
    /\ Cardinality(DOMAIN shards_to_load) = 1

\* C7: a shard that cannot be opened ends the run there: it is the last
\* shard opened, the load never returns, no output step is reached and
\* nothing is written.
C7_OpenFailureAborts ==
    \A p \in DOMAIN disk :
        disk[p].status \in {"missing", "unreadable"} =>
            /\ opened[Len(opened)] = p
            /\ pc \in {"guard", "exited"}
            /\ raised = SystemExit(1)
            /\ ~Loaded
            /\ reached \cap OutputSteps = {}
            /\ output_filename_abs = NoPath
            /\ output_files = {}

C7_Witness ==
    /\ pc = "exited"
    /\ \E p \in DOMAIN disk : disk[p].status \in {"missing", "unreadable"}
    /\ Len(opened) = 2
    /\ DOMAIN merged_tensors # {}

\* C8: once save_file has returned or failed, the main thread always goes
\* on to leave save_merged_file, whatever the spinner thread does, and it
\* always has a step to take until the process has ended.
C8_MainNeverBlocks ==
    /\ [](pc # "exited" => ENABLED SaveThread)
    /\ (pc \in {"save_set", "save_join", "save_except", "save_except_join", "save_error"})
           ~> (pc \in {"guard", "exited"})

C8_Witness ==
    /\ pc = "exited"
    /\ "save_file" \in reached
    /\ stop_spinner_event
    /\ spinner_pc \in {"loop", "sleep"}

\* C9: the collision warning is logged exactly when the output path is a
\* shard path of the plan; after it the run still calls save_file, and
\* what save_file writes is the whole merged set at that path.
C9_CollisionWarns ==
    /\ pc \in {"save_start", "save_file", "save_set", "save_join", "save_except",
               "save_except_join", "save_error"}
         => (Warning("collision", "", output_filename_abs) \in log
               <=> output_filename_abs \in {ShardOfName(n) : n \in keys(weight_map)})
    /\ (\E e \in log : e.what = "collision") =>
         /\ pc \in {"guard", "exited"} => "save_file" \in reached
         /\ raised.type = "SystemExit" => Error("save_failed", output_filename_abs) \in log
    /\ \A file \in output_files :
         file = [path |-> output_filename_abs, tensors |-> merged_tensors]

C9_Witness ==
    /\ pc = "exited"
    /\ output_filename_abs \in DOMAIN shards_to_load
    /\ Warning("collision", "", output_filename_abs) \in log
    /\ output_files = {[path |-> output_filename_abs, tensors |-> merged_tensors]}

\* The position of a shard path's file in the ascending list of the files.
FileIndex(p) == CHOOSE n \in 1..Len(AllShardFiles) : AllShardFiles[n] = p[Len(p)]

\* C10: the shards are opened one at a time in ascending order of their
\* paths, each once; at most one handle is open, it is the handle of the
\* shard being read, and it is closed before the next shard is opened and
\* before the load returns or is left, whatever happened to its names.
C10_OneShardAtATime ==
    /\ Cardinality(handles) <= 1
    /\ handles # {} => (pc = "key_loop" /\ handles = {sorted_shard_files[i]})
    /\ pc \notin {"resolve_index", "load_index", "group_keys", "load_tensors"} =>
         /\ Range(sorted_shard_files) = DOMAIN shards_to_load
         /\ \A a, b \in 1..Len(sorted_shard_files) :
              a < b => FileIndex(sorted_shard_files[a]) < FileIndex(sorted_shard_files[b])
    /\ Len(opened) <= Len(sorted_shard_files)
    /\ opened = SubSeq(sorted_shard_files, 1, Len(opened))
    /\ Loaded => opened = sorted_shard_files

C10_Witness ==
    /\ pc = "key_loop"
    /\ i = 2
    /\ handles = {sorted_shard_files[2]}
    /\ \E e \in log : e.level = "warning" /\ e.shard = sorted_shard_files[1]

=============================================================================
